---- MODULE Spec2Model ----
(***************************************************************************)
(* Model of src/main.rs: the two demonstration routines dai_structs and    *)
(* method_syntax, run in sequence by main, and the items they define       *)
(* (build_user, struct update of a User, Rectangle::area,                  *)
(* Rectangle::can_hold, Rectangle::square).                                *)
(*                                                                         *)
(* The run of main is a sequence of steps, one per statement, over the     *)
(* stack frame of the running routine and the text written to standard     *)
(* output.  Once the process has ended, one item of the file is applied    *)
(* to arguments drawn from bounded sets (the variable call), so that what  *)
(* is stated about an item is checked on more than the literals main       *)
(* passes.  The items are pure and share nothing with the run, so the      *)
(* place of the application in the run does not change its result.         *)
(***************************************************************************)
EXTENDS Integers, Sequences, FiniteSets, TLC

VARIABLES
    overflow_checks,  \* build profile: TRUE = overflow checks on (debug), FALSE = off (release)
    pc,               \* position of the single thread of main
    frame,            \* locals of the running routine: name -> value
    out,              \* writes to standard output so far, each [by, text]
    invoked,          \* how many times main has called each routine
    call              \* the one application of an item to drawn arguments

vars == <<overflow_checks, pc, frame, out, invoked, call>>

(***************************************************************************)
(* Bounds of the drawn arguments.                                          *)
(***************************************************************************)
MaxDim == 2
MaxCount == 1

\* a u32 is four bytes
U32Bytes == 4

\* widths and heights: the small ones, the literals of method_syntax, and
\* values around 2^16, whose products lie on both sides of 2^32
Dims == (0..MaxDim) \cup {30, 50, 100, 65535, 65536}
Counts == 0..MaxCount
Texts == {"random3@email.com", "random2", "random4"}

(***************************************************************************)
(* u32 arithmetic.  A u32 value is kept as its U32Bytes little-endian      *)
(* bytes, so that every value up to 2^32 - 1 and every product up to       *)
(* 2^64 - 1 is represented exactly.                                        *)
(***************************************************************************)
ToBytes(n) == [i \in 1..U32Bytes |-> (n \div (256 ^ (i - 1))) % 256]

IsZero(ds) == \A i \in 1..Len(ds) : ds[i] = 0

Term(a, b, i, k) ==
    IF (k + 1 - i) \in 1..Len(b) THEN a[i] * b[k + 1 - i] ELSE 0

RECURSIVE ColFrom(_, _, _, _)
ColFrom(a, b, i, k) ==
    IF i > Len(a) THEN 0 ELSE Term(a, b, i, k) + ColFrom(a, b, i + 1, k)

\* the exact product of two byte strings, Len(a) + Len(b) bytes long:
\* column sums with the carry taken to the next byte
WideMul(a, b) ==
    LET Propagate[k \in 1..(Len(a) + Len(b) + 1), carry \in Nat] ==
            IF k > Len(a) + Len(b) THEN <<>>
            ELSE LET t == ColFrom(a, b, 1, k) + carry
                 IN  <<t % 256>> \o Propagate[k + 1, t \div 256]
    IN  Propagate[1, 0]

(***************************************************************************)
(* Display of the printed types ({} in println!).                          *)
(***************************************************************************)
fmt_bool(b) == IF b THEN "true" ELSE "false"

DecDigit == <<"0", "1", "2", "3", "4", "5", "6", "7", "8", "9">>

RECURSIVE RemAt(_, _)
RemAt(ds, i) ==
    IF i > Len(ds) THEN 0 ELSE (RemAt(ds, i + 1) * 256 + ds[i]) % 10

Div10(ds) == [i \in 1..Len(ds) |-> (RemAt(ds, i + 1) * 256 + ds[i]) \div 10]

DecStr[ds \in Seq(0..255)] ==
    IF IsZero(ds) THEN "" ELSE DecStr[Div10(ds)] \o DecDigit[RemAt(ds, 1) + 1]

\* an unsigned integer given by its bytes
fmt_bytes(ds) == IF IsZero(ds) THEN "0" ELSE DecStr[ds]

\* an unsigned integer field (u32 width, u64 sign_in_count)
fmt_uint(n) == fmt_bytes(ToBytes(n))

\* an i32 (the fields of Color)
fmt_i32(n) == IF n < 0 THEN "-" \o fmt_uint(0 - n) ELSE fmt_uint(n)

(***************************************************************************)
(* The items of dai_structs.                                               *)
(***************************************************************************)
User(username, email, sign_in_count, active) ==
    [username |-> username, email |-> email,
     sign_in_count |-> sign_in_count, active |-> active]

\* Each item is preceded by the faulty variants of it that the properties
\* are tested against (the properties must fail with the variant in place).

\* user1.email = value
assign_email_all(user, value) ==
    [user EXCEPT !.email = value, !.username = value]

assign_email(user, value) == [user EXCEPT !.email = value]

build_user_swapped(email, username) == User(email, username, 1, TRUE)

build_user(email, username) == User(username, email, 1, TRUE)

\* User { email, username, ..base }
struct_update_defaults(email, username, base) == User(username, email, 1, TRUE)

struct_update(email, username, base) ==
    [base EXCEPT !.email = email, !.username = username]

Color(r, g, b) == <<r, g, b>>

(***************************************************************************)
(* The items of method_syntax.                                             *)
(***************************************************************************)
Rectangle(width, height) == [width |-> width, height |-> height]

Ok(bytes) == [tag |-> "ok", val |-> bytes]
Panic == [tag |-> "panic", val |-> ToBytes(0)]

Overflows(p) == ~IsZero(SubSeq(p, U32Bytes + 1, Len(p)))

\* self.width * self.height on u32: with overflow checks an overflowing
\* multiplication panics, without them it wraps modulo 2^32
area_square_of_width(self, checks) ==
    LET p == WideMul(ToBytes(self.width), ToBytes(self.width))
    IN  IF checks /\ Overflows(p) THEN Panic ELSE Ok(SubSeq(p, 1, U32Bytes))

area(self, checks) ==
    LET p == WideMul(ToBytes(self.width), ToBytes(self.height))
    IN  IF checks /\ Overflows(p) THEN Panic ELSE Ok(SubSeq(p, 1, U32Bytes))

can_hold_ge(self, other) ==
    self.width >= other.width /\ self.height >= other.height

can_hold_or(self, other) ==
    self.width > other.width \/ self.height > other.height

can_hold_crossed(self, other) ==
    self.width > other.height /\ self.height > other.width

can_hold(self, other) ==
    self.width > other.width /\ self.height > other.height

square_flat(size) == Rectangle(size, 0)

square(size) == Rectangle(size, size)

Rects == {Rectangle(w, h) : w \in Dims, h \in Dims}
Users == {User(u, e, c, a) : u \in Texts, e \in Texts, c \in Counts, a \in BOOLEAN}

(***************************************************************************)
(* Standard output and the frame.                                          *)
(***************************************************************************)
\* println!: one write of the formatted text and a newline
println(by, text) == Append(out, [by |-> by, text |-> text \o "\n"])

RECURSIVE Concat(_)
Concat(ws) == IF ws = <<>> THEN "" ELSE ws[1].text \o Concat(Tail(ws))

\* the text standard output holds
Stdout == Concat(out)

NoLocals == <<>>
Bound(name) == name \in DOMAIN frame
Let(name, value) == (name :> value) @@ frame

Step(from, to) == pc = from /\ pc' = to

Init ==
    /\ overflow_checks \in BOOLEAN
    /\ pc = "main_149"
    /\ frame = NoLocals
    /\ out = <<>>
    /\ invoked = [dai_structs |-> 0, method_syntax |-> 0]
    /\ call = [fn |-> "none"]

(***************************************************************************)
(* main                                                                    *)
(***************************************************************************)
\* faulty variant of main_call_dai_structs: the call is left out
main_skip_dai_structs ==
    /\ Step("main_149", "main_150")
    /\ UNCHANGED <<overflow_checks, frame, out, invoked, call>>

main_call_dai_structs ==
    /\ Step("main_149", "ds_23")
    /\ invoked' = [invoked EXCEPT !.dai_structs = @ + 1]
    /\ frame' = NoLocals
    /\ UNCHANGED <<overflow_checks, out, call>>

main_call_method_syntax ==
    /\ Step("main_150", "ms_99")
    /\ invoked' = [invoked EXCEPT !.method_syntax = @ + 1]
    /\ frame' = NoLocals
    /\ UNCHANGED <<overflow_checks, out, call>>

main_return ==
    /\ Step("main_151", "done")
    /\ UNCHANGED <<overflow_checks, frame, out, invoked, call>>

(***************************************************************************)
(* dai_structs                                                             *)
(***************************************************************************)
dai_structs_user1 ==
    /\ Step("ds_23", "ds_33")
    /\ frame' = Let("user1", User("random", "random@email.com", 1, TRUE))
    /\ UNCHANGED <<overflow_checks, out, invoked, call>>

dai_structs_assign_email ==
    /\ Step("ds_33", "ds_49")
    /\ frame' = [frame EXCEPT !["user1"] = assign_email(@, "random2@email.com")]
    /\ UNCHANGED <<overflow_checks, out, invoked, call>>

dai_structs_user2 ==
    /\ Step("ds_49", "ds_50")
    /\ frame' = Let("user2", build_user("random3@email.com", "random2"))
    /\ UNCHANGED <<overflow_checks, out, invoked, call>>

dai_structs_print_username ==
    /\ Step("ds_50", "ds_53")
    /\ out' = println("dai_structs", "Username of User 2 is: " \o frame["user2"].username)
    /\ UNCHANGED <<overflow_checks, frame, invoked, call>>

dai_structs_user3 ==
    /\ Step("ds_53", "ds_61")
    /\ frame' = Let("user3", struct_update("random4@email.com", "random4", frame["user1"]))
    /\ UNCHANGED <<overflow_checks, out, invoked, call>>

dai_structs_print_active ==
    /\ Step("ds_61", "ds_62")
    /\ out' = println("dai_structs", "Is user 3 active? " \o fmt_bool(frame["user3"].active))
    /\ UNCHANGED <<overflow_checks, frame, invoked, call>>

dai_structs_print_count ==
    /\ Step("ds_62", "ds_67")
    /\ out' = println("dai_structs",
                      "What's user 3 sign in count? " \o fmt_uint(frame["user3"].sign_in_count))
    /\ UNCHANGED <<overflow_checks, frame, invoked, call>>

dai_structs_black ==
    /\ Step("ds_67", "ds_68")
    /\ frame' = Let("black", Color(0, 0, 0))
    /\ UNCHANGED <<overflow_checks, out, invoked, call>>

dai_structs_print_black ==
    /\ Step("ds_68", "ds_75")
    /\ out' = println("dai_structs",
                      "Black is " \o fmt_i32(frame["black"][1]) \o fmt_i32(frame["black"][2])
                          \o fmt_i32(frame["black"][3]) \o " in RGB.")
    /\ UNCHANGED <<overflow_checks, frame, invoked, call>>

\* the end of the routine drops its locals
dai_structs_return ==
    /\ Step("ds_75", "main_150")
    /\ frame' = NoLocals
    /\ UNCHANGED <<overflow_checks, out, invoked, call>>

dai_structs ==
    \/ dai_structs_user1
    \/ dai_structs_assign_email
    \/ dai_structs_user2
    \/ dai_structs_print_username
    \/ dai_structs_user3
    \/ dai_structs_print_active
    \/ dai_structs_print_count
    \/ dai_structs_black
    \/ dai_structs_print_black
    \/ dai_structs_return

(***************************************************************************)
(* method_syntax                                                           *)
(***************************************************************************)
method_syntax_rect1 ==
    /\ Step("ms_99", "ms_104")
    /\ frame' = Let("rect1", Rectangle(30, 50))
    /\ UNCHANGED <<overflow_checks, out, invoked, call>>

method_syntax_rect2 ==
    /\ Step("ms_104", "ms_109")
    /\ frame' = Let("rect2", Rectangle(50, 100))
    /\ UNCHANGED <<overflow_checks, out, invoked, call>>

\* the receiver is rect2 and the argument rect1
method_syntax_print_can_hold ==
    /\ Step("ms_109", "ms_111")
    /\ out' = println("method_syntax",
                      "Can rect1 hold rect2? "
                          \o fmt_bool(can_hold(frame["rect2"], frame["rect1"])))
    /\ UNCHANGED <<overflow_checks, frame, invoked, call>>

\* a panic in area ends the process before anything is written
method_syntax_print_area ==
    /\ pc = "ms_111"
    /\ LET a == area(frame["rect1"], overflow_checks)
       IN  IF a.tag = "panic"
           THEN pc' = "panicked" /\ out' = out
           ELSE /\ pc' = "ms_135"
                /\ out' = println("method_syntax",
                                  "The area of the rectangle is " \o fmt_bytes(a.val)
                                      \o " square pixels.")
    /\ UNCHANGED <<overflow_checks, frame, invoked, call>>

method_syntax_rect5 ==
    /\ Step("ms_135", "ms_136")
    /\ frame' = Let("rect5", square(2))
    /\ UNCHANGED <<overflow_checks, out, invoked, call>>

method_syntax_print_square ==
    /\ Step("ms_136", "ms_146")
    /\ out' = println("method_syntax",
                      "Square width and height are " \o fmt_uint(frame["rect5"].width)
                          \o "x" \o fmt_uint(frame["rect5"].height) \o ".")
    /\ UNCHANGED <<overflow_checks, frame, invoked, call>>

method_syntax_return ==
    /\ Step("ms_146", "main_151")
    /\ frame' = NoLocals
    /\ UNCHANGED <<overflow_checks, out, invoked, call>>

method_syntax ==
    \/ method_syntax_rect1
    \/ method_syntax_rect2
    \/ method_syntax_print_can_hold
    \/ method_syntax_print_area
    \/ method_syntax_rect5
    \/ method_syntax_print_square
    \/ method_syntax_return

main ==
    \/ main_call_dai_structs
    \/ dai_structs
    \/ main_call_method_syntax
    \/ method_syntax
    \/ main_return

(***************************************************************************)
(* One application of an item of the file to drawn arguments.              *)
(***************************************************************************)
Applied(fn) == call.fn = fn
Ended == pc \in {"done", "panicked"}
CanApply == Ended /\ Applied("none")

apply_build_user ==
    /\ CanApply
    /\ \E email \in Texts, username \in Texts :
          call' = [fn |-> "build_user", email |-> email, username |-> username,
                   ret |-> build_user(email, username)]
    /\ UNCHANGED <<overflow_checks, pc, frame, out, invoked>>

apply_struct_update ==
    /\ CanApply
    /\ \E email \in Texts, username \in Texts, base \in Users :
          call' = [fn |-> "struct_update", email |-> email, username |-> username,
                   base |-> base, ret |-> struct_update(email, username, base)]
    /\ UNCHANGED <<overflow_checks, pc, frame, out, invoked>>

apply_area ==
    /\ CanApply
    /\ \E self \in Rects :
          call' = [fn |-> "area", self |-> self, ret |-> area(self, overflow_checks)]
    /\ UNCHANGED <<overflow_checks, pc, frame, out, invoked>>

apply_can_hold ==
    /\ CanApply
    /\ \E self \in Rects, other \in Rects :
          call' = [fn |-> "can_hold", self |-> self, other |-> other,
                   ret |-> can_hold(self, other)]
    /\ UNCHANGED <<overflow_checks, pc, frame, out, invoked>>

apply_square ==
    /\ CanApply
    /\ \E size \in Dims :
          call' = [fn |-> "square", size |-> size, ret |-> square(size)]
    /\ UNCHANGED <<overflow_checks, pc, frame, out, invoked>>

Next ==
    \/ main
    \/ apply_build_user
    \/ apply_struct_update
    \/ apply_area
    \/ apply_can_hold
    \/ apply_square

Spec == Init /\ [][Next]_vars

\* the process runs: its single thread takes its next step
LiveSpec == Spec /\ WF_vars(main)

(***************************************************************************)
(* Properties.                                                             *)
(***************************************************************************)
Rect1 == Rectangle(30, 50)
Rect2 == Rectangle(50, 100)

ExpectedStdout ==
    "Username of User 2 is: random2\n"
    \o "Is user 3 active? true\n"
    \o "What's user 3 sign in count? 1\n"
    \o "Black is 000 in RGB.\n"
    \o "Can rect1 hold rect2? false\n"
    \o "The area of the rectangle is 1500 square pixels.\n"
    \o "Square width and height are 2x2.\n"

\* C1: when main has run, standard output holds exactly the seven listed
\* lines, the fifth being "Can rect1 hold rect2? false", in that order and
\* with nothing else
C1_StdoutIsTheSevenLines == pc = "done" => Stdout = ExpectedStdout

\* C2: r.can_hold(o) is true exactly when r.width > o.width and
\* r.height > o.height; it is false when either dimension is equal and when
\* only one dimension is strictly larger
C2_CanHoldIffBothStrictlyLarger ==
    Applied("can_hold") =>
        LET r == call.self
            o == call.other
        IN  /\ call.ret <=> (r.width > o.width /\ r.height > o.height)
            /\ (r.width = o.width \/ r.height = o.height) => ~call.ret
            /\ (r.width > o.width /\ ~(r.height > o.height)) => ~call.ret
            /\ (r.height > o.height /\ ~(r.width > o.width)) => ~call.ret

C2_Witness ==
    /\ Applied("can_hold")
    /\ call.self.width > call.other.width
    /\ call.self.height = call.other.height
    /\ ~call.ret

\* C3 as stated: between the 30x50 and the 50x100 rectangle can_hold is
\* false in both directions
C3_NeitherHoldsTheOther ==
    (Applied("can_hold") /\ {call.self, call.other} = {Rect1, Rect2}) => ~call.ret

\* C3 as amended: the 30x50 rectangle does not hold the 50x100 rectangle,
\* and the 50x100 rectangle does hold the 30x50 rectangle
C3_OnlyRect2HoldsRect1 ==
    Applied("can_hold") =>
        /\ (call.self = Rect1 /\ call.other = Rect2) => ~call.ret
        /\ (call.self = Rect2 /\ call.other = Rect1) => call.ret

C3_Witness ==
    Applied("can_hold") /\ call.self = Rect2 /\ call.other = Rect1 /\ call.ret

\* the exact product of a rectangle's width and height
Product(r) == WideMul(ToBytes(r.width), ToBytes(r.height))
\* whether width * height fits a signed 32-bit integer, where it can be
\* compared with the built-in product
Small(r) == r.width = 0 \/ r.height <= 2147483647 \div r.width

\* C4 as stated: area() returns exactly width x height, also when the
\* product exceeds 2^32 - 1
C4_AreaIsExactProduct ==
    Applied("area") =>
        /\ call.ret.tag = "ok"
        /\ call.ret.val \o ToBytes(0) = Product(call.self)

\* C4 as amended: area() returns exactly width x height when the product is
\* at most 2^32 - 1 (1500 for 30x50); when it exceeds 2^32 - 1, area()
\* panics under overflow checks and returns the product modulo 2^32 without
\* them
C4_AreaIsProductUnlessOverflow ==
    Applied("area") =>
        LET p == Product(call.self)
        IN  /\ ~Overflows(p) => call.ret = Ok(SubSeq(p, 1, U32Bytes))
            /\ Small(call.self) =>
                   call.ret = Ok(ToBytes(call.self.width * call.self.height))
            /\ call.self = Rect1 => call.ret = Ok(ToBytes(1500))
            /\ (Overflows(p) /\ overflow_checks) => call.ret.tag = "panic"
            /\ (Overflows(p) /\ ~overflow_checks) =>
                   call.ret = Ok(SubSeq(p, 1, U32Bytes))

C4_Witness ==
    /\ Applied("area")
    /\ call.self = Rectangle(65536, 65536)
    /\ ~overflow_checks
    /\ call.ret = Ok(ToBytes(0))

\* C5: Rectangle::square(s) has width = s and height = s; the square main
\* builds from 2 is 2x2
C5_SquareHasBothSidesSize ==
    /\ Applied("square") => (call.ret.width = call.size /\ call.ret.height = call.size)
    /\ Bound("rect5") => (frame["rect5"].width = 2 /\ frame["rect5"].height = 2)

C5_Witness ==
    Applied("square") /\ call.size = 2 /\ call.ret = Rectangle(2, 2)

\* C6: a User built by struct update with email and username given takes
\* sign_in_count and active from the source as it is then, and email and
\* username from what is given; user3 has sign_in_count 1, active true,
\* email random4@email.com and username random4
C6_StructUpdateCopiesTheRest ==
    /\ Applied("struct_update") =>
           /\ call.ret.sign_in_count = call.base.sign_in_count
           /\ call.ret.active = call.base.active
           /\ call.ret.email = call.email
           /\ call.ret.username = call.username
    /\ Bound("user3") =>
           /\ frame["user3"].sign_in_count = frame["user1"].sign_in_count
           /\ frame["user3"].active = frame["user1"].active
           /\ frame["user3"] = User("random4", "random4@email.com", 1, TRUE)

C6_Witness ==
    /\ Bound("user3")
    /\ frame["user3"].sign_in_count = 1
    /\ frame["user3"].active
    /\ frame["user1"].email = "random2@email.com"
    /\ frame["user3"].email = "random4@email.com"

\* C7: build_user(email, username) has the first argument as email, the
\* second as username, active = true and sign_in_count = 1; user2 has
\* username random2
C7_BuildUserFillsAllFields ==
    /\ Applied("build_user") =>
           call.ret = User(call.username, call.email, 1, TRUE)
    /\ Bound("user2") =>
           frame["user2"] = User("random2", "random3@email.com", 1, TRUE)

C7_Witness ==
    /\ Applied("build_user")
    /\ call.email = "random3@email.com"
    /\ call.username = "random2"
    /\ call.ret.username = "random2"

InDaiStructs ==
    pc \in {"ds_23", "ds_33", "ds_49", "ds_50", "ds_53", "ds_61", "ds_62",
            "ds_67", "ds_68", "ds_75"}

MainOrder ==
    /\ invoked.dai_structs <= 1
    /\ invoked.method_syntax <= 1
    /\ pc # "panicked"
    /\ invoked.method_syntax = 1 => (invoked.dai_structs = 1 /\ ~InDaiStructs)
    /\ pc = "done" => (invoked.dai_structs = 1 /\ invoked.method_syntax = 1)
    /\ \A i \in 1..Len(out), j \in 1..Len(out) :
           (i < j /\ out[i].by = "method_syntax") => out[j].by = "method_syntax"

\* C8: main calls dai_structs once, lets it return, then calls
\* method_syntax once and ends; no step panics, and nothing method_syntax
\* writes comes before something dai_structs writes
C8_MainRunsEachRoutineOnceInOrder == []MainOrder /\ <>(pc = "done")

C8_Witness ==
    /\ pc = "done"
    /\ invoked = [dai_structs |-> 1, method_syntax |-> 1]
    /\ Len(out) = 7
    /\ out[4].by = "dai_structs"
    /\ out[5].by = "method_syntax"

\* C9: a.can_hold(b) and b.can_hold(a) are never both true, and
\* a.can_hold(a) is false
C9_CanHoldIsStrict ==
    Applied("can_hold") =>
        /\ ~(call.ret /\ can_hold(call.other, call.self))
        /\ call.self = call.other => ~call.ret

C9_Witness ==
    Applied("can_hold") /\ call.self = call.other /\ call.self = Rect1 /\ ~call.ret

AssignEmailFrame ==
    (pc = "ds_33" /\ pc' # pc) =>
        /\ DOMAIN frame' = DOMAIN frame
        /\ frame'["user1"].email = "random2@email.com"
        /\ frame'["user1"].username = frame["user1"].username
        /\ frame'["user1"].sign_in_count = frame["user1"].sign_in_count
        /\ frame'["user1"].active = frame["user1"].active
        /\ frame'["user1"] = User("random", "random2@email.com", 1, TRUE)

OthersKeepTheirEmail ==
    \A name \in DOMAIN frame \cap {"user2", "user3"} :
        frame[name].email # "random2@email.com"

\* C10: the assignment to user1.email changes only that field of user1
\* (username random, sign_in_count 1 and active true stay), and user2 and
\* user3 never have the email random2@email.com
C10_AssignEmailChangesOnlyEmail == [][AssignEmailFrame]_vars /\ []OthersKeepTheirEmail

C10_Witness ==
    /\ pc = "ds_61"
    /\ frame["user1"] = User("random", "random2@email.com", 1, TRUE)
    /\ frame["user2"].email = "random3@email.com"
    /\ frame["user3"].email = "random4@email.com"
====
